---- MODULE Spec2Model ----
(***************************************************************************)
(* A model of AStar (src/astar.py): the grid search with diagonal moves,   *)
(* the corner-cutting rule and the "closest so far" fallback.              *)
(*                                                                         *)
(* Costs are kept in doubled units: the code's distance() returns          *)
(* round(2*sqrt(dx^2+dy^2))/2, a multiple of 0.5, and every g and f value  *)
(* is a sum of such values, so twice each value is an integer and the      *)
(* doubling is exact.  A coordinate (x, y) is the tuple <<x, y>>.          *)
(***************************************************************************)
EXTENDS Integers, Sequences, FiniteSets, Bags, TLC

\* Bounds of the model: the largest grid (its width, its height and its number
\* of cells) and the number of times pathfind is called on one AStar object.
MaxWidth == 3
MaxHeight == 3
MaxCells == 9
MaxCalls == 2

\* The fields of the AStar object (array, width, height, start, end), the
\* locals of pathfind (closed, came_from, g_score, f_score, open, closest,
\* f and current as last popped, path), the position in pathfind (pc; found tells the return at line
\* 69 from the one at line 99), the number of calls of pathfind so far and what
\* the call before this one returned.
VARIABLES array, width, height, start, end, closed, came_from, g_score,
          f_score, open, closest, pc, f, current, path, found, calls, previous

vars == <<array, width, height, start, end, closed, came_from, g_score,
          f_score, open, closest, pc, f, current, path, found, calls, previous>>

object == <<array, width, height, start, end>>

Cells == (0 .. width - 1) \X (0 .. height - 1)

\* array[y][x] = 1 is a blocked cell (draw_path writes 1 for 'B', 0 otherwise).
Blocked(c) == array[c[2]][c[1]] = 1

-----------------------------------------------------------------------------
\* distance(a, b) in doubled units: round(2 * sqrt(n)) for n = dx^2 + dy^2 is
\* the least k with 2*sqrt(n) < k + 1/2, that is 16 n < (2k + 1)^2.  No tie
\* 2*sqrt(n) = k + 1/2 exists for an integer n, so the rounding mode of
\* round() plays no part.
RoundSqrt4[n \in Nat] ==
    CHOOSE k \in 0 .. (2 * n + 1) :
        /\ 16 * n < (2 * k + 1) * (2 * k + 1)
        /\ \A j \in 0 .. (k - 1) : 16 * n >= (2 * j + 1) * (2 * j + 1)

\* floor(2 * sqrt(n)): the least k with 4 n < (k + 1)^2.
FloorSqrt4[n \in Nat] ==
    CHOOSE k \in 0 .. (2 * n + 1) :
        /\ 4 * n < (k + 1) * (k + 1)
        /\ \A j \in 0 .. (k - 1) : 4 * n >= (j + 1) * (j + 1)

\* A faulty variant of distance: the doubled root truncated, not rounded.
distanceTruncated(a, b) ==
    FloorSqrt4[(b[1] - a[1]) * (b[1] - a[1]) + (b[2] - a[2]) * (b[2] - a[2])]

\* A faulty variant of distance: the city-block metric.
distanceManhattan(a, b) ==
    2 * ((IF b[1] >= a[1] THEN b[1] - a[1] ELSE a[1] - b[1])
         + (IF b[2] >= a[2] THEN b[2] - a[2] ELSE a[2] - b[2]))

distance(a, b) ==
    RoundSqrt4[(b[1] - a[1]) * (b[1] - a[1]) + (b[2] - a[2]) * (b[2] - a[2])]

-----------------------------------------------------------------------------
possible_neighbors ==
    << <<1, 1>>, <<1, -1>>, <<-1, 1>>, <<-1, -1>>,
       <<0, 1>>, <<0, -1>>, <<1, 0>>, <<-1, 0>> >>

\* Faulty variants of NeighborAllowed: without the corner rule; with the corner rule
\* reading the two ends of the move and not its two flanks; without the test
\* of the target cell.
NeighborAllowedNoCornerRule(cur, off) ==
    LET considered == <<cur[1] + off[1], cur[2] + off[2]>>
    IN  /\ 0 <= considered[1] /\ considered[1] < width
        /\ 0 <= considered[2] /\ considered[2] < height
        /\ array[considered[2]][considered[1]] # 1

NeighborAllowedWrongFlanks(cur, off) ==
    LET considered == <<cur[1] + off[1], cur[2] + off[2]>>
    IN  /\ 0 <= considered[1] /\ considered[1] < width
        /\ 0 <= considered[2] /\ considered[2] < height
        /\ array[considered[2]][considered[1]] # 1
        /\ ~ (/\ array[considered[2]][considered[1]] = 1
              /\ array[cur[2]][cur[1]] = 1)

NeighborAllowedThroughWalls(cur, off) ==
    LET considered == <<cur[1] + off[1], cur[2] + off[2]>>
    IN  /\ 0 <= considered[1] /\ considered[1] < width
        /\ 0 <= considered[2] /\ considered[2] < height
        /\ ~ (/\ array[considered[2]][cur[1]] = 1
              /\ array[cur[2]][considered[1]] = 1)

\* A faulty variant of NeighborAllowed: one blocked flank is enough to reject.
NeighborAllowedEitherFlank(cur, off) ==
    LET considered == <<cur[1] + off[1], cur[2] + off[2]>>
    IN  /\ 0 <= considered[1] /\ considered[1] < width
        /\ 0 <= considered[2] /\ considered[2] < height
        /\ array[considered[2]][considered[1]] # 1
        /\ ~ (\/ array[considered[2]][cur[1]] = 1
              \/ array[cur[2]][considered[1]] = 1)

\* The tests of get_neighbors on one offset, in the code's order.
NeighborAllowed(cur, off) ==
    LET considered == <<cur[1] + off[1], cur[2] + off[2]>>
    IN  /\ 0 <= considered[1] /\ considered[1] < width
        /\ 0 <= considered[2] /\ considered[2] < height
        /\ array[considered[2]][considered[1]] # 1
        /\ ~ (/\ array[considered[2]][cur[1]] = 1
              /\ array[cur[2]][considered[1]] = 1)

get_neighbors(cur) ==
    LET Allowed(off) == NeighborAllowed(cur, off)
        offs == SelectSeq(possible_neighbors, Allowed)
    IN  [i \in 1 .. Len(offs) |-> <<cur[1] + offs[i][1], cur[2] + offs[i][2]>>]

-----------------------------------------------------------------------------
\* A faulty variant of EntryLess: entries compared by estimated cost alone.
EntryLessCostOnly(e1, e2) == e1[1] < e2[1]

\* A faulty variant of EntryLess: the order turned round (a max-heap).
EntryLessReversed(e1, e2) ==
    \/ e2[1] < e1[1]
    \/ /\ e2[1] = e1[1]
       /\ \/ e2[2][1] < e1[2][1]
          \/ e2[2][1] = e1[2][1] /\ e2[2][2] < e1[2][2]

\* Frontier entries are the tuples (f, (x, y)); Python compares them
\* lexicographically: by f, then by x, then by y.
EntryLess(e1, e2) ==
    \/ e1[1] < e2[1]
    \/ /\ e1[1] = e2[1]
       /\ \/ e1[2][1] < e2[2][1]
          \/ e1[2][1] = e2[2][1] /\ e1[2][2] < e2[2][2]

\* What heappop may return: an entry no other entry is smaller than.
MinEntries(h) ==
    {e \in BagToSet(h) : \A o \in BagToSet(h) : ~ EntryLess(o, e)}

\* [x[1] for x in open]
OpenCoords(h) == {e[2] : e \in BagToSet(h)}

heappush(h, e) == h (+) SetToBag({e})

\* A faulty variant of heapremove: the entry is read and left in the heap.
heapkeep(h, e) == h

heapremove(h, e) == h (-) SetToBag({e})

\* g_score.get(n, 0)
GScoreGet(g, n) == IF n \in DOMAIN g THEN g[n] ELSE 0

-----------------------------------------------------------------------------
\* A faulty variant of CloserThanClosest: the comparisons of distance turned round.
CloserThanClosestFlipped(n, gn, cl) ==
    \/ distance(n, end) > distance(cl[1], end)
    \/ /\ distance(n, end) = distance(cl[1], end)
       /\ gn < cl[2]

\* A faulty variant of CloserThanClosest: the tie-break prefers the dearer cell.
CloserThanClosestDearer(n, gn, cl) ==
    \/ distance(n, end) < distance(cl[1], end)
    \/ distance(n, end) = distance(cl[1], end) /\ gn > cl[2]

\* The closest-so-far test of line 87.
CloserThanClosest(n, gn, cl) ==
    \/ distance(n, end) < distance(cl[1], end)
    \/ /\ distance(n, end) = distance(cl[1], end)
       /\ gn < cl[2]

\* A faulty variant of SkipClosed: the comparison of costs turned round.
SkipClosedFlipped(n, tentative_g, st) ==
    n \in st.closed /\ tentative_g < GScoreGet(st.g_score, n)

\* A faulty variant of SkipClosed: nothing is skipped.
SkipClosedNever(n, tentative_g, st) == FALSE

\* The skip test of line 76.
SkipClosed(n, tentative_g, st) ==
    n \in st.closed /\ tentative_g >= GScoreGet(st.g_score, n)

\* A faulty variant of ShouldRecord: without the "not in the frontier" case.
ShouldRecordImprovedOnly(n, tentative_g, st) ==
    tentative_g < GScoreGet(st.g_score, n)

\* A faulty variant of ShouldRecord: the frontier is asked whether it is
\* empty, not whether it holds the neighbor.
ShouldRecordFrontierEmpty(n, tentative_g, st) ==
    \/ tentative_g < GScoreGet(st.g_score, n)
    \/ st.open = EmptyBag

\* A faulty variant of ShouldRecord: every neighbor not skipped is recorded.
ShouldRecordAlways(n, tentative_g, st) == TRUE

\* The update test of line 79.
ShouldRecord(n, tentative_g, st) ==
    \/ tentative_g < GScoreGet(st.g_score, n)
    \/ n \notin OpenCoords(st.open)

\* The body of the for loop (lines 74-88) for one neighbor; st holds the
\* collections the loop reads and writes.
ProcessNeighbor(st, cur, n) ==
    LET tentative_g == st.g_score[cur] + distance(cur, n)
        fn == tentative_g + distance(n, end)
    IN  IF SkipClosed(n, tentative_g, st) THEN st
        ELSE IF ShouldRecord(n, tentative_g, st)
        THEN [st EXCEPT
                !.came_from = (n :> cur) @@ st.came_from,
                !.g_score = (n :> tentative_g) @@ st.g_score,
                !.f_score = (n :> fn) @@ st.f_score,
                !.open = heappush(st.open, <<fn, n>>),
                !.closest = IF CloserThanClosest(n, tentative_g, st.closest)
                            THEN <<n, tentative_g>>
                            ELSE st.closest]
        ELSE st

\* The for loop of line 73 over the neighbors ns, in their order.  (Each
\* neighbor and the state after it are bound as values before the loop goes
\* on.)
RECURSIVE ProcessNeighbors(_, _, _)
ProcessNeighbors(st, cur, ns) ==
    IF ns = << >> THEN st
    ELSE CHOOSE r \in {ProcessNeighbors(s1, cur, t) :
                          s1 \in {ProcessNeighbor(st, cur, n) : n \in {Head(ns)}},
                          t \in {Tail(ns)}} : TRUE

RECURSIVE Reverse(_)
Reverse(s) == IF s = << >> THEN << >> ELSE Append(Reverse(Tail(s)), Head(s))

\* Faulty variants of FinishPath: start is not appended; start is appended after
\* the reversal.
FinishPathNoStart(walked) == Reverse(walked)

FinishPathReverseFirst(walked) == Append(Reverse(walked), start)

\* path.append(self.start); path.reverse(); return path
FinishPath(walked) == Reverse(Append(walked, start))

-----------------------------------------------------------------------------
\* Lines 49-57: the collections pathfind starts a search with.
StartSearch ==
    /\ closed = {}
    /\ came_from = << >>
    /\ g_score = (start :> 0)
    /\ f_score = (start :> distance(start, end))
    /\ open = SetToBag({<<distance(start, end), start>>})
    /\ closest = <<start, 0>>
    /\ pc = "search"
    /\ f = 0
    /\ current = start
    /\ path = << >>
    /\ found = FALSE

\* An AStar object as draw_path builds it (a rectangular array of 0 and 1,
\* start and end in bounds on cells holding 0) on entry to pathfind.
Init ==
    /\ width \in 1 .. MaxWidth
    /\ height \in 1 .. MaxHeight
    /\ width * height <= MaxCells
    /\ array \in [0 .. height - 1 -> [0 .. width - 1 -> {0, 1}]]
    /\ start \in Cells
    /\ end \in Cells
    /\ ~ Blocked(start)
    /\ ~ Blocked(end)
    /\ calls = 1
    /\ previous = << >>
    /\ StartSearch

\* One iteration of the while loop that does not pop end (lines 60, 71-88).
\* g_score[current] raises KeyError when current has no score.
Expand ==
    /\ pc = "search"
    /\ \E e \in MinEntries(open) :
        /\ e[2] # end
        /\ IF e[2] \notin DOMAIN g_score
           THEN /\ pc' = "raised"
                /\ open' = heapremove(open, e)
                /\ UNCHANGED <<closed, came_from, g_score, f_score, closest>>
           ELSE \E st \in {ProcessNeighbors(s0, e[2], ns) :
                              s0 \in {[closed |-> closed \cup {e[2]},
                                       came_from |-> came_from,
                                       g_score |-> g_score,
                                       f_score |-> f_score,
                                       open |-> heapremove(open, e),
                                       closest |-> closest]},
                              ns \in {get_neighbors(e[2])}} :
                    /\ closed' = st.closed
                    /\ came_from' = st.came_from
                    /\ g_score' = st.g_score
                    /\ f_score' = st.f_score
                    /\ open' = st.open
                    /\ closest' = st.closest
                    /\ pc' = "search"
        /\ f' = e[1]
        /\ current' = e[2]
    /\ UNCHANGED <<object, path, found, calls, previous>>

\* The iteration that pops end (lines 60-63).
GoalFound ==
    /\ pc = "search"
    /\ \E e \in MinEntries(open) :
        /\ e[2] = end
        /\ open' = heapremove(open, e)
        /\ f' = e[1]
        /\ current' = e[2]
    /\ path' = << >>
    /\ found' = TRUE
    /\ pc' = "walk"
    /\ UNCHANGED <<object, closed, came_from, g_score, f_score,
                   closest, calls, previous>>

\* The frontier is empty: the loop ends and the fallback starts (lines 59,
\* 92-93).
Exhausted ==
    /\ pc = "search"
    /\ open = EmptyBag
    /\ path' = << >>
    /\ current' = closest[1]
    /\ found' = FALSE
    /\ pc' = "walk"
    /\ UNCHANGED <<object, closed, came_from, g_score, f_score,
                   open, closest, f, calls, previous>>

\* One iteration of a backward walk (lines 64-66 and 94-96).
WalkStep ==
    /\ pc = "walk"
    /\ current \in DOMAIN came_from
    /\ path' = Append(path, current)
    /\ current' = came_from[current]
    /\ UNCHANGED <<object, closed, came_from, g_score, f_score,
                   open, closest, pc, f, found, calls, previous>>

\* The end of a backward walk and the return (lines 67-69 and 97-99).
WalkEnd ==
    /\ pc = "walk"
    /\ current \notin DOMAIN came_from
    /\ path' = FinishPath(path)
    /\ pc' = "done"
    /\ UNCHANGED <<object, closed, came_from, g_score, f_score,
                   open, closest, f, current, found, calls, previous>>

\* pathfind is called again on the same object: every collection is created
\* afresh (lines 49-57); previous keeps what the last call returned.
CallAgain ==
    /\ pc = "done"
    /\ calls < MaxCalls
    /\ calls' = calls + 1
    /\ previous' = path
    /\ closed' = {}
    /\ came_from' = << >>
    /\ g_score' = (start :> 0)
    /\ f_score' = (start :> distance(start, end))
    /\ open' = SetToBag({<<distance(start, end), start>>})
    /\ closest' = <<start, 0>>
    /\ pc' = "search"
    /\ f' = 0
    /\ current' = start
    /\ path' = << >>
    /\ found' = FALSE
    /\ UNCHANGED object

\* One call of pathfind.
Next ==
    \/ Expand
    \/ GoalFound
    \/ Exhausted
    \/ WalkStep
    \/ WalkEnd

Spec == Init /\ [][Next]_vars

\* Before draw_path has parsed a board: no field holds a value yet.
NoObject ==
    /\ pc = "new"
    /\ array = << >>
    /\ width = 0
    /\ height = 0
    /\ start = <<0, 0>>
    /\ end = <<0, 0>>
    /\ closed = {}
    /\ came_from = << >>
    /\ g_score = << >>
    /\ f_score = << >>
    /\ open = EmptyBag
    /\ closest = <<<<0, 0>>, 0>>
    /\ f = 0
    /\ current = <<0, 0>>
    /\ path = << >>
    /\ found = FALSE
    /\ calls = 0
    /\ previous = << >>

\* draw_path fills array, width and height from the board (lines 144-159); a
\* board holds an S and an X, which are cells holding 0.
BuildGrid ==
    /\ pc = "new"
    /\ \E w \in 1 .. MaxWidth : \E h \in 1 .. MaxHeight :
        /\ w * h <= MaxCells
        /\ width' = w
        /\ height' = h
        /\ \E a \in [0 .. h - 1 -> [0 .. w - 1 -> {0, 1}]] :
              /\ \E y \in 0 .. h - 1 : \E x \in 0 .. w - 1 : a[y][x] = 0
              /\ array' = a
    /\ pc' = "grid"
    /\ UNCHANGED <<start, end, closed, came_from, g_score, f_score, open,
                   closest, f, current, path, found, calls, previous>>

\* AStar(array, width, height, start, end), with start and end on cells
\* holding 0, and the entry to pathfind (lines 163-164, 13-19 and 49-57): the
\* state Init describes.
Construct ==
    /\ pc = "grid"
    /\ \E s \in Cells : \E e \in Cells :
        /\ ~ Blocked(s)
        /\ ~ Blocked(e)
        /\ start' = s
        /\ end' = e
        /\ g_score' = (s :> 0)
        /\ f_score' = (s :> distance(s, e))
        /\ open' = SetToBag({<<distance(s, e), s>>})
        /\ closest' = <<s, 0>>
        /\ current' = s
    /\ closed' = {}
    /\ came_from' = << >>
    /\ pc' = "search"
    /\ f' = 0
    /\ path' = << >>
    /\ found' = FALSE
    /\ calls' = 1
    /\ previous' = << >>
    /\ UNCHANGED <<array, width, height>>

NextLive ==
    \/ BuildGrid
    \/ Construct
    \/ Next

\* draw_path and pathfind are synchronous single-threaded code: a step that
\* can be taken is taken.
LiveSpec == NoObject /\ [][NextLive]_vars /\ WF_vars(NextLive)

\* pathfind called MaxCalls times on one object.
NextRepeat ==
    \/ Next
    \/ CallAgain

RepeatSpec == Init /\ [][NextRepeat]_vars

\* The for loop of lines 73-88 taking the neighbors in every order: P holds
\* pairs of a state of the loop and the neighbors still to process, k is the
\* number of iterations left; the result is the states the loop can end in.
RECURSIVE ProcessInAnyOrder(_, _, _)
ProcessInAnyOrder(P, cur, k) ==
    IF k = 0 THEN {p[1] : p \in P}
    ELSE ProcessInAnyOrder(
             UNION {{<<ProcessNeighbor(p[1], cur, n), p[2] \ {n}>> : n \in p[2]}
                    : p \in P},
             cur, k - 1)

\* Expand with the list of line 30 permuted: a later call of pathfind pops an
\* entry (lines 60-71) and processes the neighbors get_neighbors returns in
\* some order (lines 73-88).
ExpandAnyOrder ==
    /\ pc = "search"
    /\ calls > 1
    /\ \E e \in MinEntries(open) :
        /\ e[2] # end
        /\ IF e[2] \notin DOMAIN g_score
           THEN /\ pc' = "raised"
                /\ open' = heapremove(open, e)
                /\ UNCHANGED <<closed, came_from, g_score, f_score, closest>>
           ELSE \E st \in UNION {ProcessInAnyOrder({<<s0, {ns[i] : i \in 1 .. Len(ns)}>>},
                                                   e[2], Len(ns)) :
                              s0 \in {[closed |-> closed \cup {e[2]},
                                       came_from |-> came_from,
                                       g_score |-> g_score,
                                       f_score |-> f_score,
                                       open |-> heapremove(open, e),
                                       closest |-> closest]},
                              ns \in {get_neighbors(e[2])}} :
                    /\ closed' = st.closed
                    /\ came_from' = st.came_from
                    /\ g_score' = st.g_score
                    /\ f_score' = st.f_score
                    /\ open' = st.open
                    /\ closest' = st.closest
                    /\ pc' = "search"
        /\ f' = e[1]
        /\ current' = e[2]
    /\ UNCHANGED <<object, path, found, calls, previous>>

\* A call of pathfind as the code makes it, then calls that take the
\* neighbors of each expanded cell in any order.
NextAnyOrder ==
    \/ calls = 1 /\ Expand
    \/ ExpandAnyOrder
    \/ GoalFound
    \/ Exhausted
    \/ WalkStep
    \/ WalkEnd
    \/ CallAgain

AnyOrderSpec == Init /\ [][NextAnyOrder]_vars

-----------------------------------------------------------------------------
(***************************************************************************)
(* Vocabulary of the properties, stated on the grid alone and not through  *)
(* get_neighbors or distance.                                              *)
(***************************************************************************)
InBounds(c) ==
    /\ 0 <= c[1] /\ c[1] < width
    /\ 0 <= c[2] /\ c[2] < height

\* a and b differ by at most 1 in x and in y, and differ.
Adjacent(a, b) ==
    /\ a # b
    /\ b[1] - a[1] \in {-1, 0, 1}
    /\ b[2] - a[2] \in {-1, 0, 1}

Diagonal(a, b) == a[1] # b[1] /\ a[2] # b[2]

\* The two flanks of the step a -> b: the cell in a's row and b's column and
\* the cell in a's column and b's row.
BothFlanksBlocked(a, b) ==
    /\ Blocked(<<b[1], a[2]>>)
    /\ Blocked(<<a[1], b[2]>>)

\* A legal move: to an adjacent cell in bounds that is not blocked, and not a
\* diagonal between two blocked flanks.
LegalStep(a, b) ==
    /\ Adjacent(a, b)
    /\ InBounds(b)
    /\ ~ Blocked(b)
    /\ ~ (Diagonal(a, b) /\ BothFlanksBlocked(a, b))

RECURSIVE Closure(_)
Closure(S) ==
    LET T == S \cup {c \in Cells : \E s \in S : LegalStep(s, c)}
    IN  IF T = S THEN S ELSE Closure(T)

\* The cells some sequence of legal moves leads to from start.
Reachable == Closure({start})

\* Twice the cost of a step: 1.0 orthogonal, 1.5 diagonal.
StepCost(a, b) == IF Diagonal(a, b) THEN 3 ELSE 2

RECURSIVE PathCost(_)
PathCost(p) ==
    IF Len(p) < 2 THEN 0
    ELSE StepCost(p[1], p[2]) + PathCost(Tail(p))

\* Bellman-Ford on pairs <<cell, twice a cost>>: one round adds every legal
\* move out of a known cell and keeps the cheapest pair of each cell.
RelaxOnce(D) ==
    LET cand == D \cup UNION {{<<c, p[2] + StepCost(p[1], c)>> :
                                 c \in {q \in Cells : LegalStep(p[1], q)}} :
                              p \in D}
    IN  {p \in cand : \A o \in cand : o[1] = p[1] => p[2] <= o[2]}

RECURSIVE Relax(_)
Relax(D) ==
    LET E == RelaxOnce(D)
    IN  IF E = D THEN D ELSE Relax(E)

\* Twice the cost of the cheapest sequence of legal moves from start to c, a
\* cell of Reachable.
CheapestCost(c) ==
    LET D == Relax({<<start, 0>>})
    IN  (CHOOSE p \in D : p[1] = c)[2]

Last(p) == p[Len(p)]

Returned == pc = "done"

\* Every surrounding cell of start is out of bounds, blocked, or a diagonal
\* with both flanks blocked.
StartEnclosed ==
    \A dx \in {-1, 0, 1} : \A dy \in {-1, 0, 1} :
        LET c == <<start[1] + dx, start[2] + dy>>
        IN  c # start => ~ LegalStep(start, c)

NumBlocked == Cardinality({c \in Cells : Blocked(c)})

-----------------------------------------------------------------------------
\* C1: pathfind never raises, and what it returns is a non-empty sequence
\* whose first element is start, whether or not end is reachable.
C1_NonEmptyFromStart ==
    /\ pc # "raised"
    /\ Returned => (Len(path) >= 1 /\ path[1] = start)

\* A fallback path of several cells was returned for an unreachable end.
C1_Witness ==
    /\ Returned
    /\ end \notin Reachable
    /\ Len(path) >= 3
    /\ path[1] = start

\* C2: if end is reachable from start by legal moves, the returned path ends
\* at end.
C2_ReachableEndsAtEnd ==
    (Returned /\ end \in Reachable) => Last(path) = end

\* A path around a wall: end reached in at least three moves on a grid with
\* blocked cells.
C2_Witness ==
    /\ Returned
    /\ end \in Reachable
    /\ NumBlocked >= 2
    /\ Len(path) >= 4
    /\ Last(path) = end

\* C3, as claimed: end unreachable and start with a legal neighbor give a
\* last coordinate strictly closer to end than start.
C3_Original ==
    (Returned /\ end \notin Reachable /\ ~ StartEnclosed)
        => distance(Last(path), end) < distance(start, end)

\* C3, amended: end unreachable and SOME REACHABLE CELL strictly closer to end
\* than start give a last coordinate strictly closer to end than start; with
\* no such cell the path is [start].
C3_CloserWhenPossible ==
    (Returned /\ end \notin Reachable)
        => IF \E c \in Reachable : distance(c, end) < distance(start, end)
           THEN distance(Last(path), end) < distance(start, end)
           ELSE path = <<start>>

\* A fallback path of several cells ends strictly closer to end than start.
C3_Witness ==
    /\ Returned
    /\ end \notin Reachable
    /\ ~ StartEnclosed
    /\ Len(path) >= 2
    /\ distance(Last(path), end) < distance(start, end)

\* C4: a start without a legal neighbor, different from end, gives [start].
C4_EnclosedStart ==
    (Returned /\ StartEnclosed /\ start # end) => path = <<start>>

\* start is walled in by two blocked cells and the diagonal between them.
C4_Witness ==
    /\ Returned
    /\ StartEnclosed
    /\ start # end
    /\ NumBlocked = 2
    /\ width >= 2 /\ height >= 2
    /\ path = <<start>>

\* C5: every coordinate of a returned path is in bounds and not blocked.
C5_PathOnOpenCells ==
    Returned => \A i \in 1 .. Len(path) : InBounds(path[i]) /\ ~ Blocked(path[i])

\* A returned path of three cells or more that passes next to a blocked cell.
C5_Witness ==
    /\ Returned
    /\ Len(path) >= 3
    /\ \E c \in Cells : Blocked(c) /\ Adjacent(path[2], c)
    /\ \A i \in 1 .. Len(path) : InBounds(path[i]) /\ ~ Blocked(path[i])

\* C6: no two consecutive coordinates of a returned path are a diagonal step
\* between two blocked flanks.
C6_NoCornerSqueeze ==
    Returned =>
        \A i \in 1 .. Len(path) - 1 :
            ~ (Diagonal(path[i], path[i + 1])
               /\ BothFlanksBlocked(path[i], path[i + 1]))

\* A returned path cuts a corner: a diagonal step with one flank blocked;
\* and on the same grid another diagonal has both flanks blocked.
C6_Witness ==
    /\ Returned
    /\ \E i \in 1 .. Len(path) - 1 :
          /\ Diagonal(path[i], path[i + 1])
          /\ Blocked(<<path[i + 1][1], path[i][2]>>)
             # Blocked(<<path[i][1], path[i + 1][2]>>)
    /\ \E a \in Cells : \E b \in Cells :
          /\ ~ Blocked(a) /\ ~ Blocked(b)
          /\ Adjacent(a, b) /\ Diagonal(a, b) /\ BothFlanksBlocked(a, b)

\* C7: a returned path holds no coordinate twice and every two consecutive
\* coordinates are distinct 8-neighbours.
C7_SimpleAdjacentPath ==
    Returned =>
        /\ \A i \in 1 .. Len(path) : \A j \in 1 .. Len(path) :
              path[i] = path[j] => i = j
        /\ \A i \in 1 .. Len(path) - 1 : Adjacent(path[i], path[i + 1])

\* A returned path of at least four cells.
C7_Witness ==
    /\ Returned
    /\ Len(path) >= 4
    /\ \A i \in 1 .. Len(path) - 1 : Adjacent(path[i], path[i + 1])

\* C8: the search loop ends (end popped or frontier empty) and the backward
\* walk ends: every call of pathfind returns.
C8_Terminates == <>Returned

\* The loop ended by exhaustion after several pops, and the walk ended.
C8_Witness ==
    /\ Returned
    /\ ~ found
    /\ Cardinality(closed) >= 4
    /\ open = EmptyBag

\* C9: when end is reachable the cost of the returned path is g_score[end]
\* and no sequence of legal moves from start to end is cheaper; on the open
\* 3x3 grid from (0,0) to (2,2) the path is (0,0),(1,1),(2,2) of cost 3.0.
C9_CheapestPath ==
    (Returned /\ end \in Reachable) =>
        /\ PathCost(path) = g_score[end]
        /\ PathCost(path) = CheapestCost(end)
        /\ (/\ width = 3 /\ height = 3 /\ NumBlocked = 0
            /\ start = <<0, 0>> /\ end = <<2, 2>>)
              => (path = << <<0, 0>>, <<1, 1>>, <<2, 2>> >> /\ PathCost(path) = 6)

\* The example of C9 has run.
C9_Witness ==
    /\ Returned
    /\ width = 3 /\ height = 3 /\ NumBlocked = 0
    /\ start = <<0, 0>> /\ end = <<2, 2>>
    /\ PathCost(path) = 6

\* C10: the entry pathfind pops is the one smallest by estimated cost, then
\* x, then y, and no other; and a second call of pathfind on the same object
\* returns the sequence the first call returned.
C10_Deterministic ==
    /\ (pc = "search" /\ open # EmptyBag) => Cardinality(MinEntries(open)) = 1
    /\ (pc = "search" /\ open # EmptyBag) =>
          \A e \in MinEntries(open) : \A o \in BagToSet(open) :
              \/ e[1] < o[1]
              \/ e[1] = o[1] /\ e[2][1] < o[2][1]
              \/ e[1] = o[1] /\ e[2][1] = o[2][1] /\ e[2][2] <= o[2][2]
    /\ (Returned /\ calls > 1) => path = previous

\* A second call returned a fallback path of several cells.
C10_Witness ==
    /\ Returned
    /\ calls = 2
    /\ ~ found
    /\ Len(path) >= 3
    /\ path = previous

\* The coordinates of a sequence of coordinates.
Range(q) == {q[i] : i \in 1 .. Len(q)}

\* C11: when the frontier is exhausted the terminal coordinate of the returned
\* path is at the least distance() to end among start and the reachable cells,
\* and no reachable cell at that distance is cheaper to reach from start.
C11_ClosestIsNearestCheapest ==
    (Returned /\ ~ found) =>
        LET D == Relax({<<start, 0>>})
            Cost(c) == (CHOOSE p \in D : p[1] = c)[2]
            last == Last(path)
        IN  \A c \in Reachable :
                /\ distance(last, end) <= distance(c, end)
                /\ distance(c, end) = distance(last, end) => Cost(last) <= Cost(c)

\* The tie-break decided: another reachable cell is as close to end as the
\* terminal coordinate and dearer to reach.
C11_Witness ==
    /\ Returned
    /\ ~ found
    /\ Len(path) >= 2
    /\ \E c \in Reachable :
          /\ c # Last(path)
          /\ distance(c, end) = distance(Last(path), end)
          /\ CheapestCost(c) > CheapestCost(Last(path))

\* The entry about to be popped is stale: its estimated cost is greater than
\* the f_score of its coordinate.
StaleTop ==
    /\ pc = "search"
    /\ \E e \in MinEntries(open) :
          e[2] \in DOMAIN f_score /\ e[1] > f_score[e[2]]

\* C12: popping a stale entry leaves g_score, f_score, came_from and the
\* closest tracker unchanged and pushes no entry.
C12_StalePopIdempotent ==
    [][StaleTop =>
          /\ g_score' = g_score
          /\ f_score' = f_score
          /\ came_from' = came_from
          /\ closest' = closest
          /\ \A e \in BagToSet(open') : CopiesIn(e, open') <= CopiesIn(e, open)
          /\ BagCardinality(open') = BagCardinality(open) - 1]_vars

\* A stale entry has just been popped and reprocessed.
C12_Witness ==
    /\ pc = "search"
    /\ current \in closed
    /\ current \in DOMAIN f_score
    /\ f > f_score[current]

\* C13: get_neighbors(c) is exactly the surrounding cells of c that are in
\* bounds, not blocked and, when diagonal, not between two blocked flanks;
\* each once.
C13_NeighborsAreLegalSteps ==
    \A c \in Cells :
        /\ Range(get_neighbors(c))
              = {b \in (c[1] - 1 .. c[1] + 1) \X (c[2] - 1 .. c[2] + 1) :
                    LegalStep(c, b)}
        /\ Len(get_neighbors(c)) = Cardinality(Range(get_neighbors(c)))

\* An expanded cell has a diagonal neighbor with exactly one flank blocked, an
\* orthogonal neighbor next to a blocked cell, and an open diagonal cell that
\* is not a neighbor because both flanks are blocked.
C13_Witness ==
    /\ pc = "search"
    /\ \E c \in closed :
          /\ \E n \in Range(get_neighbors(c)) :
                /\ Diagonal(c, n)
                /\ Blocked(<<n[1], c[2]>>) # Blocked(<<c[1], n[2]>>)
          /\ \E n \in Range(get_neighbors(c)) : ~ Diagonal(c, n)
          /\ \E b \in Cells :
                /\ Adjacent(c, b) /\ Diagonal(c, b) /\ ~ Blocked(b)
                /\ BothFlanksBlocked(c, b)
                /\ b \notin Range(get_neighbors(c))

\* C14: distance is symmetric, 0 exactly for equal coordinates, a whole
\* number of halves, 1.0 between orthogonal neighbours and 1.5 between
\* diagonal neighbours (2 and 3 in doubled units).
C14_DistanceProperties ==
    \A a \in Cells : \A b \in Cells :
        /\ distance(a, b) = distance(b, a)
        /\ distance(a, b) \in Nat
        /\ distance(a, b) = 0 <=> a = b
        /\ (Adjacent(a, b) /\ ~ Diagonal(a, b)) => distance(a, b) = 2
        /\ (Adjacent(a, b) /\ Diagonal(a, b)) => distance(a, b) = 3

\* The search has charged a diagonal step 1.5 and an orthogonal step 1.0.
C14_Witness ==
    /\ Returned
    /\ \E c \in DOMAIN came_from :
          came_from[c] = start /\ Diagonal(start, c) /\ g_score[c] = 3
    /\ \E c \in DOMAIN came_from :
          came_from[c] = start /\ ~ Diagonal(start, c) /\ g_score[c] = 2

\* The line-76 test passes for every visited neighbor of the cell about to be
\* expanded.
ClosedNeighborsNotImproved ==
    \A e \in MinEntries(open) :
        e[2] # end =>
            \A n \in Range(get_neighbors(e[2])) :
                n \in closed =>
                    g_score[e[2]] + distance(e[2], n) >= g_score[n]

\* C15: an expansion finds no strictly lower tentative_g for a visited
\* coordinate, and a visited coordinate keeps its g_score and its predecessor
\* and is not pushed again.
C15_ClosedIsFinal ==
    [][/\ pc = "search" => ClosedNeighborsNotImproved
       /\ \A c \in closed :
             /\ c \in DOMAIN g_score' /\ g_score'[c] = g_score[c]
             /\ c \in DOMAIN came_from' <=> c \in DOMAIN came_from
             /\ c \in DOMAIN came_from => came_from'[c] = came_from[c]
             /\ \A e \in BagToSet(open') :
                   e[2] = c => CopiesIn(e, open') <= CopiesIn(e, open)]_vars

\* An expansion has met a visited neighbor other than its own predecessor
\* and skipped it.
C15_Witness ==
    /\ pc = "search"
    /\ current \in closed
    /\ current \in DOMAIN came_from
    /\ \E n \in closed :
          /\ n # came_from[current]
          /\ n \in Range(get_neighbors(current))
          /\ g_score[current] + distance(current, n) >= g_score[n]
          /\ came_from[n] # current

\* Following came_from from c reaches start without meeting a coordinate of
\* seen again.
RECURSIVE LeadsToStart(_, _)
LeadsToStart(c, seen) ==
    IF c = start THEN TRUE
    ELSE IF c \notin DOMAIN came_from \/ c \in seen THEN FALSE
    ELSE LeadsToStart(came_from[c], seen \cup {c})

\* C16: start has no predecessor, every other scored coordinate has one, of
\* which it is a legal neighbor, and the predecessors lead back to start
\* without a repeat.
C16_PredecessorTree ==
    (pc \in {"search", "walk", "done"}) =>
        /\ start \notin DOMAIN came_from
        /\ DOMAIN g_score = DOMAIN came_from \cup {start}
        /\ \A c \in DOMAIN came_from :
              /\ came_from[c] \in Cells
              /\ LegalStep(came_from[c], c)
              /\ LeadsToStart(c, {})

\* A tree three moves deep.
C16_Witness ==
    /\ pc = "search"
    /\ \E c \in DOMAIN came_from :
          /\ came_from[c] \in DOMAIN came_from
          /\ came_from[came_from[c]] \in DOMAIN came_from
          /\ came_from[came_from[came_from[c]]] = start

\* c was recorded anew by the step: its predecessor changed or an entry for
\* it was pushed.
Rerecorded(c) ==
    \/ c \in DOMAIN came_from /\ came_from'[c] # came_from[c]
    \/ \E e \in BagToSet(open') :
          e[2] = c /\ CopiesIn(e, open') > CopiesIn(e, open)

\* C17: in every step the scored coordinates stay scored, no g_score grows,
\* and a coordinate that had a score is recorded anew only with a strictly
\* lower one.
C17_ScoresOnlyImprove ==
    [][/\ DOMAIN g_score \subseteq DOMAIN g_score'
       /\ \A c \in DOMAIN g_score :
             /\ g_score'[c] <= g_score[c]
             /\ Rerecorded(c) => g_score'[c] < g_score[c]]_vars

\* A score was overwritten with a lower one: the frontier holds the entry of
\* the old score beside the entry of the new one.
C17_Witness ==
    /\ pc = "search"
    /\ \E e \in BagToSet(open) : \E o \in BagToSet(open) :
          /\ e[2] = o[2]
          /\ e[1] > o[1]
          /\ o[1] = f_score[o[2]]

\* C18 as stated: whatever the order in which the neighbors of each expanded
\* cell are processed, pathfind returns the sequence it returns with the order
\* of the code, when the goal is found and when the fallback path is returned.
C18_Original ==
    (Returned /\ calls > 1) => path = previous

\* C18: whatever the order in which the neighbors of each expanded cell are
\* processed, a path that ends at end is the sequence returned with the order
\* of the code; a fallback path is returned exactly when the code returns one,
\* and its terminal coordinate is as far from end and its steps cost as much.
C18_OrderIndependentUpToTies ==
    (Returned /\ calls > 1) =>
        /\ Last(path) = end <=> Last(previous) = end
        /\ found => path = previous
        /\ distance(Last(path), end) = distance(Last(previous), end)
        /\ PathCost(path) = PathCost(previous)

\* Another order of the neighbors has led the fallback to another sequence.
C18_Witness ==
    /\ Returned
    /\ calls > 1
    /\ ~ found
    /\ path # previous
    /\ Head(path) = start

====
